---- MODULE Spec2Model ----
(***************************************************************************)
(* FiberTesterController (src/fiber_tester.py): the selection state        *)
(* machine, the Morse symbol table and the sequence compiler.              *)
(*                                                                         *)
(* A Python str is modelled as a sequence of one-character strings         *)
(* ("42" is <<"4","2">>).  A formatted message (an f-string) is the        *)
(* concatenation of its literal pieces, each kept as one element, and of   *)
(* the interpolated strings.  A Python dict is a record with exactly the   *)
(* keys the code gives it; an exception that leaves an operation is the    *)
(* record [raised |-> <exception name>].                                   *)
(*                                                                         *)
(* FiberTesterHandler (src/backend-server.py): the HTTP binding.  The      *)
(* server is single-threaded and speaks HTTP/1.0, so each request is read  *)
(* and answered by a handler object of its own, one request at a time.     *)
(***************************************************************************)
EXTENDS Integers, Sequences, FiniteSets, TLC

VARIABLES
    current_color,         \* self.current_color
    current_number,        \* self.current_number
    is_transmitting,       \* self.is_transmitting
    transmission_history,  \* self.transmission_history, newest first
    clock,                 \* the value the next time.time() call returns
    completed_log,         \* history variable: messages of all successful completions, newest first
    call,                  \* the last operation called and its argument
    result,                \* what that call returned (or raised); [constructed |-> TRUE]
                           \* while no operation has been called
    prev_op,               \* the operation called before it
    reference_prepare,     \* history variable: the first successful prepare_transmission
                           \* made while the history was empty, with its selection
    request,               \* the HTTP request the handler is answering, or NoRequest
    exchanges              \* history variable: the last two answered requests with
                           \* their responses, newest first

ctrl == <<current_color, current_number, is_transmitting, transmission_history>>
vars == <<current_color, current_number, is_transmitting, transmission_history,
          clock, completed_log, call, result, prev_op, reference_prepare,
          request, exchanges>>
http == <<request, exchanges>>

-----------------------------------------------------------------------------
(* Python values *)

\* Python's None: distinct from every str (no str has a several-letter element).
None == <<"None">>

\* Truth value of an attribute that holds None or a str: `if x` / `not x`.
Truthy(x) == x # None /\ x # <<>>

\* The characters int() treats as decimal digits.  "U+0663" stands for the single
\* character ARABIC-INDIC DIGIT THREE: a Unicode decimal digit int() accepts.
AsciiDigits == {"0", "1", "2", "3", "4", "5", "6", "7", "8", "9"}
UnicodeDigits == {"U+0663"}
Whitespace == {" ", "\t", "\n"}

DigitValue(c) ==
    CASE c = "0" -> 0 [] c = "1" -> 1 [] c = "2" -> 2 [] c = "3" -> 3
      [] c = "4" -> 4 [] c = "5" -> 5 [] c = "6" -> 6 [] c = "7" -> 7
      [] c = "8" -> 8 [] c = "9" -> 9 [] c = "U+0663" -> 3

\* str.strip() as int() applies it: leading and trailing whitespace removed.
RECURSIVE lstrip(_)
lstrip(s) == IF s # <<>> /\ Head(s) \in Whitespace THEN lstrip(Tail(s)) ELSE s

RECURSIVE rstrip(_)
rstrip(s) ==
    IF s # <<>> /\ s[Len(s)] \in Whitespace THEN rstrip(SubSeq(s, 1, Len(s) - 1)) ELSE s

\* Value of a digit string with underscores skipped, most significant digit first.
RECURSIVE digits_value(_, _)
digits_value(s, acc) ==
    IF s = <<>> THEN acc
    ELSE IF Head(s) = "_" THEN digits_value(Tail(s), acc)
    ELSE digits_value(Tail(s), 10 * acc + DigitValue(Head(s)))

\* The digit part of an int() literal in base 10: decimal digits, with single
\* underscores allowed between two digits.
digits_ok(s) ==
    /\ s # <<>>
    /\ \A i \in 1..Len(s) : s[i] \in AsciiDigits \cup UnicodeDigits \cup {"_"}
    /\ s[1] # "_"
    /\ s[Len(s)] # "_"
    /\ \A i \in 1..(Len(s) - 1) : ~(s[i] = "_" /\ s[i + 1] = "_")

\* int(text) for a str: [ok |-> TRUE, val |-> n], or ok = FALSE for ValueError.
py_int(text) ==
    LET t == rstrip(lstrip(text))
        signed == t # <<>> /\ t[1] \in {"+", "-"}
        body == IF signed THEN Tail(t) ELSE t
        sign == IF signed /\ t[1] = "-" THEN -1 ELSE 1
    IN  IF digits_ok(body)
        THEN [ok |-> TRUE, val |-> sign * digits_value(body, 0)]
        ELSE [ok |-> FALSE, val |-> 0]

\* str.upper() on one character, for the letters the model's colors use.
upper(c) ==
    CASE c = "r" -> "R" [] c = "g" -> "G" [] c = "b" -> "B" [] c = "y" -> "Y"
      [] c = "e" -> "E" [] c = "d" -> "D" [] OTHER -> c

-----------------------------------------------------------------------------
(* Class constants *)

Red == <<"R", "e", "d">>
Green == <<"G", "r", "e", "e", "n">>
Blue == <<"B", "l", "u", "e">>

dot == "dot"     \* the pattern character for a short pulse
dash == "dash"   \* the pattern character for a long pulse

MORSE_CODE ==
    [c \in {"R", "G", "B"} \cup AsciiDigits |->
        CASE c = "R" -> <<dot, dash, dot>>
          [] c = "G" -> <<dash, dash, dot>>
          [] c = "B" -> <<dash, dot, dot, dot>>
          [] c = "0" -> <<dash, dash, dash, dash, dash>>
          [] c = "1" -> <<dot, dash, dash, dash, dash>>
          [] c = "2" -> <<dot, dot, dash, dash, dash>>
          [] c = "3" -> <<dot, dot, dot, dash, dash>>
          [] c = "4" -> <<dot, dot, dot, dot, dash>>
          [] c = "5" -> <<dot, dot, dot, dot, dot>>
          [] c = "6" -> <<dash, dot, dot, dot, dot>>
          [] c = "7" -> <<dash, dash, dot, dot, dot>>
          [] c = "8" -> <<dash, dash, dash, dot, dot>>
          [] c = "9" -> <<dash, dash, dash, dash, dot>>]

DOT_DURATION == 200
DASH_DURATION == 600
INTRA_LETTER_GAP == 200
INTER_LETTER_GAP == 600
CONFIRMATION_FLASH == 1000
HISTORY_LIMIT == 5

-----------------------------------------------------------------------------
(* Validation *)

\* Mutant: the color name is matched after capitalising its first letter.
validate_color_any_case(color) ==
    color # <<>> /\ (<<upper(color[1])>> \o Tail(color)) \in {Red, Green, Blue}

validate_color(color) == color \in {Red, Green, Blue}

\* Mutant: the upper end of the range is excluded.
validate_number_exclusive(number) ==
    LET num == py_int(number)
    IN  num.ok /\ 0 <= num.val /\ num.val < 100

\* int(number) raises TypeError for None, and `except ValueError` lets it pass.
int_raises(number) == number = None

\* int(number) inside try/except ValueError, then the range test.
validate_number(number) ==
    LET num == py_int(number)
    IN  num.ok /\ 0 <= num.val /\ num.val <= 100

-----------------------------------------------------------------------------
(* The sequence compiler *)

Raise(exception) == [raised |-> exception]
Raised(r) == "raised" \in DOMAIN r

\* A returned dict whose 'success' is True / False.
Succeeded(r) == "success" \in DOMAIN r /\ r.success
Failed(r) == "success" \in DOMAIN r /\ ~r.success

\* The events _pattern_to_sequence appends for pattern[i..]: the pulse of symbol i
\* (nothing for a symbol that is neither dot nor dash), then the intra-letter gap
\* unless i is the last index.
RECURSIVE pattern_events(_, _, _, _)
pattern_events(pattern, seq_type, value, i) ==
    IF i > Len(pattern) THEN <<>>
    ELSE
        LET pulse ==
                IF pattern[i] = dot
                THEN <<[type |-> "dot", duration |-> DOT_DURATION,
                        sequence_type |-> seq_type, value |-> value,
                        description |-> <<"Dot (", seq_type, ")">>]>>
                ELSE IF pattern[i] = dash
                THEN <<[type |-> "dash", duration |-> DASH_DURATION,
                        sequence_type |-> seq_type, value |-> value,
                        description |-> <<"Dash (", seq_type, ")">>]>>
                ELSE <<>>
            gap ==
                IF i < Len(pattern)
                THEN <<[type |-> "gap", duration |-> INTRA_LETTER_GAP,
                        description |-> <<"Intra-letter gap">>]>>
                ELSE <<>>
        IN  pulse \o gap \o pattern_events(pattern, seq_type, value, i + 1)

\* Mutant: the intra-letter gap is appended after the last symbol too.
_pattern_to_sequence_gap_after_each(pattern, seq_type, value) ==
    pattern_events(pattern, seq_type, value, 1)
    \o <<[type |-> "gap", duration |-> INTRA_LETTER_GAP,
          description |-> <<"Intra-letter gap">>]>>

_pattern_to_sequence(pattern, seq_type, value) ==
    pattern_events(pattern, seq_type, value, 1)

\* The loop over the characters of current_number, from character i on.  The
\* caller has checked that every character is a key of MORSE_CODE.
RECURSIVE digit_events(_, _)
digit_events(number, i) ==
    IF i > Len(number) THEN <<>>
    ELSE _pattern_to_sequence(MORSE_CODE[number[i]], "digit", <<number[i]>>)
         \o <<[type |-> "gap", duration |-> INTER_LETTER_GAP,
               description |-> <<"Inter-letter gap after digit ", number[i]>>]>>
         \o digit_events(number, i + 1)

\* Returns [value |-> the list of events], or the KeyError of a MORSE_CODE lookup
\* whose key is not in the table.
calculate_transmission_sequence ==
    IF ~Truthy(current_color) \/ ~Truthy(current_number) THEN [value |-> <<>>]
    ELSE
        LET color_letter == upper(current_color[1])
        IN  IF color_letter \notin DOMAIN MORSE_CODE THEN Raise("KeyError")
            ELSE IF \E i \in 1..Len(current_number) :
                        current_number[i] \notin DOMAIN MORSE_CODE
            THEN Raise("KeyError")
            ELSE [value |->
                    _pattern_to_sequence(MORSE_CODE[color_letter], "color", <<>>)
                    \o <<[type |-> "gap", duration |-> INTER_LETTER_GAP,
                          description |-> <<"Inter-letter gap">>]>>
                    \o digit_events(current_number, 1)
                    \o <<[type |-> "confirmation", duration |-> CONFIRMATION_FLASH,
                          description |-> <<"Confirmation flash">>]>>]

\* Mutant: the sum stops before the last event.
RECURSIVE sum_durations_but_last(_)
sum_durations_but_last(sequence) ==
    IF Len(sequence) <= 1 THEN 0
    ELSE Head(sequence).duration + sum_durations_but_last(Tail(sequence))

\* sum(step['duration'] for step in sequence)
RECURSIVE sum_durations(_)
sum_durations(sequence) ==
    IF sequence = <<>> THEN 0
    ELSE Head(sequence).duration + sum_durations(Tail(sequence))

-----------------------------------------------------------------------------
(* Results of the operations, as functions of the state they are called in *)

\* [record['message'] for record in self.transmission_history]
history_messages(history) == [i \in 1..Len(history) |-> history[i].message]

\* Mutant: the history is never truncated.
keep_all(history) == history

\* Mutant: the truncation keeps the last 5 records instead of the first 5.
keep_oldest(history) ==
    IF Len(history) > HISTORY_LIMIT
    THEN SubSeq(history, Len(history) - HISTORY_LIMIT + 1, Len(history))
    ELSE history

\* The truncation of complete_transmission: keep only the first 5 records.
keep_recent(history) ==
    IF Len(history) > HISTORY_LIMIT THEN SubSeq(history, 1, HISTORY_LIMIT) ELSE history

prepare_transmission ==
    IF ~Truthy(current_color)
    THEN [success |-> FALSE, message |-> <<"No color selected">>, status |-> "error"]
    ELSE IF ~Truthy(current_number)
    THEN [success |-> FALSE, message |-> <<"No number entered">>, status |-> "error"]
    ELSE IF is_transmitting
    THEN [success |-> FALSE, message |-> <<"Transmission already in progress">>,
          status |-> "error"]
    ELSE
        LET sequence == calculate_transmission_sequence
        IN  IF Raised(sequence) THEN sequence
            ELSE [success |-> TRUE,
                  message |-> <<"Transmitting ">> \o current_color \o <<" ">>
                              \o current_number \o <<"...">>,
                  status |-> "transmitting",
                  color |-> current_color,
                  number |-> current_number,
                  sequence |-> sequence.value,
                  total_duration |-> sum_durations(sequence.value)]

\* Mutant: readiness tests the number's integer value, so that 0 is not ready.
get_status_numeric ==
    [color |-> current_color,
     number |-> current_number,
     is_transmitting |-> is_transmitting,
     history |-> history_messages(transmission_history),
     ready_to_send |-> Truthy(current_color) /\ Truthy(current_number)
                       /\ py_int(current_number).val # 0 /\ ~is_transmitting]

get_status ==
    [color |-> current_color,
     number |-> current_number,
     is_transmitting |-> is_transmitting,
     history |-> history_messages(transmission_history),
     ready_to_send |-> Truthy(current_color) /\ Truthy(current_number)
                       /\ ~is_transmitting]

-----------------------------------------------------------------------------
(* The operations *)

Called(op, arg) ==
    /\ call' = [op |-> op, arg |-> arg]
    /\ prev_op' = call.op

SetColor(color) ==
    /\ Called("set_color", color)
    /\ IF ~validate_color(color)
       THEN /\ result' = [success |-> FALSE,
                          message |-> <<"Invalid color: ">> \o color
                                      \o <<". Must be Red, Green, or Blue.">>,
                          status |-> "error"]
            /\ UNCHANGED current_color
       ELSE /\ current_color' = color
            /\ result' = [success |-> TRUE,
                          message |-> color \o <<" selected - Enter number">>,
                          status |-> "color_selected",
                          color |-> color]
    /\ UNCHANGED <<current_number, is_transmitting, transmission_history,
                   clock, completed_log, reference_prepare>>

\* Mutant: the argument is stored before it is validated.
SetNumberStoresFirst(number) ==
    /\ Called("set_number", number)
    /\ current_number' = number
    /\ result' = IF int_raises(number) THEN Raise("TypeError")
                 ELSE IF ~validate_number(number)
                 THEN [success |-> FALSE,
                       message |-> <<"Invalid number: ">> \o number
                                   \o <<". Must be 0-100.">>,
                       status |-> "error"]
                 ELSE [success |-> TRUE,
                       message |-> <<"Number ">> \o number \o <<" set - Select color">>,
                       status |-> "number_set",
                       number |-> number]
    /\ UNCHANGED <<current_color, is_transmitting, transmission_history,
                   clock, completed_log, reference_prepare>>

SetNumber(number) ==
    /\ Called("set_number", number)
    /\ IF int_raises(number)
       THEN /\ result' = Raise("TypeError")
            /\ UNCHANGED current_number
       ELSE IF ~validate_number(number)
       THEN /\ result' = [success |-> FALSE,
                          message |-> <<"Invalid number: ">> \o number
                                      \o <<". Must be 0-100.">>,
                          status |-> "error"]
            /\ UNCHANGED current_number
       ELSE /\ current_number' = number
            /\ result' = [success |-> TRUE,
                          message |-> IF Truthy(current_color)
                                      THEN current_color \o <<" ">> \o number
                                           \o <<" ready">>
                                      ELSE <<"Number ">> \o number
                                           \o <<" set - Select color">>,
                          status |-> "number_set",
                          number |-> number]
    /\ UNCHANGED <<current_color, is_transmitting, transmission_history,
                   clock, completed_log, reference_prepare>>

\* Mutant: clearing an empty selection is reported as an error.
ClearSelectionStrict ==
    /\ Called("clear_selection", None)
    /\ current_color' = None
    /\ current_number' = None
    /\ result' = IF current_color = None /\ current_number = None
                 THEN [success |-> FALSE, message |-> <<"Nothing to clear">>,
                       status |-> "error"]
                 ELSE [success |-> TRUE, message |-> <<"Select color and number">>,
                       status |-> "cleared"]
    /\ UNCHANGED <<is_transmitting, transmission_history, clock, completed_log,
                   reference_prepare>>

\* Mutant: clearing resets the whole controller, history included.
ClearSelectionResetsAll ==
    /\ Called("clear_selection", None)
    /\ current_color' = None
    /\ current_number' = None
    /\ is_transmitting' = FALSE
    /\ transmission_history' = <<>>
    /\ result' = [success |-> TRUE, message |-> <<"Select color and number">>,
                  status |-> "cleared"]
    /\ UNCHANGED <<clock, completed_log, reference_prepare>>

ClearSelection ==
    /\ Called("clear_selection", None)
    /\ current_color' = None
    /\ current_number' = None
    /\ result' = [success |-> TRUE, message |-> <<"Select color and number">>,
                  status |-> "cleared"]
    /\ UNCHANGED <<is_transmitting, transmission_history, clock, completed_log,
                   reference_prepare>>

\* What reference_prepare becomes when prepare_transmission returns r.
Observe(r) ==
    IF Succeeded(r) /\ ~reference_prepare.set /\ transmission_history = <<>>
    THEN [set |-> TRUE, color |-> current_color, number |-> current_number,
          result |-> r]
    ELSE reference_prepare

\* Mutant: a successful prepare marks the controller as transmitting.
PrepareTransmissionSetsFlag ==
    /\ Called("prepare_transmission", None)
    /\ result' = prepare_transmission
    /\ reference_prepare' = Observe(prepare_transmission)
    /\ is_transmitting' = (is_transmitting \/ Succeeded(prepare_transmission))
    /\ UNCHANGED <<current_color, current_number, transmission_history,
                   clock, completed_log>>

PrepareTransmission ==
    /\ Called("prepare_transmission", None)
    /\ result' = prepare_transmission
    /\ reference_prepare' = Observe(prepare_transmission)
    /\ UNCHANGED <<ctrl, clock, completed_log>>

\* Mutant: only a transmission in progress can be completed.
CanCompleteWhenTransmitting ==
    Truthy(current_color) /\ Truthy(current_number) /\ is_transmitting

\* Whether complete_transmission passes its guard (and so reads the clock).
CanComplete == Truthy(current_color) /\ Truthy(current_number)

\* Mutant: the flag is set, not reset, when the transmission completes.
CompleteTransmissionLeavesFlagSet ==
    /\ Called("complete_transmission", None)
    /\ IF ~CanComplete
       THEN /\ result' = [success |-> FALSE,
                          message |-> <<"No transmission to complete">>,
                          status |-> "error"]
            /\ UNCHANGED <<ctrl, clock, completed_log>>
            /\ UNCHANGED reference_prepare
       ELSE LET transmission_record ==
                    [color |-> current_color,
                     number |-> current_number,
                     timestamp |-> clock,
                     message |-> current_color \o <<" ">> \o current_number
                                 \o <<" sent">>]
                history == keep_recent(<<transmission_record>> \o transmission_history)
            IN  /\ transmission_history' = history
                /\ current_color' = None
                /\ current_number' = None
                /\ is_transmitting' = TRUE
                /\ clock' = clock + 1
                /\ completed_log' = <<transmission_record.message>> \o completed_log
                /\ UNCHANGED reference_prepare
                /\ result' = [success |-> TRUE,
                              message |-> current_color \o <<" ">> \o current_number
                                          \o <<" sent">>,
                              status |-> "completed",
                              history |-> history_messages(history)]

CompleteTransmission ==
    /\ Called("complete_transmission", None)
    /\ IF ~CanComplete
       THEN /\ result' = [success |-> FALSE,
                          message |-> <<"No transmission to complete">>,
                          status |-> "error"]
            /\ UNCHANGED <<ctrl, clock, completed_log>>
            /\ UNCHANGED reference_prepare
       ELSE LET transmission_record ==
                    [color |-> current_color,
                     number |-> current_number,
                     timestamp |-> clock,
                     message |-> current_color \o <<" ">> \o current_number
                                 \o <<" sent">>]
                history == keep_recent(<<transmission_record>> \o transmission_history)
            IN  /\ transmission_history' = history
                /\ current_color' = None
                /\ current_number' = None
                /\ is_transmitting' = FALSE
                /\ clock' = clock + 1
                /\ completed_log' = <<transmission_record.message>> \o completed_log
                /\ UNCHANGED reference_prepare
                /\ result' = [success |-> TRUE,
                              message |-> current_color \o <<" ">> \o current_number
                                          \o <<" sent">>,
                              status |-> "completed",
                              history |-> history_messages(history)]

GetStatus ==
    /\ Called("get_status", None)
    /\ result' = get_status
    /\ UNCHANGED <<ctrl, clock, completed_log, reference_prepare>>

-----------------------------------------------------------------------------
(* The HTTP binding *)

NoRequest == [method |-> "none"]

\* dict.get(key): the value, or None for a key the dict does not have.
Get(data, key) == IF key \in DOMAIN data THEN data[key] ELSE None

\* The dict do_POST gets from the body: {} for an empty body, else json.loads.
\* A JSON null is None.  (Called for a body that json.loads accepts.)
Data(body) == IF body.kind = "empty" THEN <<>> ELSE body.data

\* The lines of the response head in the order the handler puts them in the
\* buffer: do_GET and do_POST call send_header twice before send_response.
HeadOfReply == <<"Access-Control-Allow-Origin: *", "Content-Type: application/json",
                 "status-line">>
HeadOfOptions == <<"status-line", "Access-Control-Allow-Origin: *",
                   "Access-Control-Allow-Methods: GET, POST, OPTIONS",
                   "Access-Control-Allow-Headers: Content-Type">>

\* do_OPTIONS writes no body after the head.
NoBody == [empty |-> TRUE]

\* The handler has written its response: the exchange is over.
Respond(head, code, body) ==
    /\ exchanges' = <<[request |-> request,
                       response |-> [head |-> head, code |-> code, body |-> body]]>>
                    \o (IF exchanges = <<>> THEN <<>> ELSE <<exchanges[1]>>)
    /\ request' = NoRequest

\* The body written by the `except Exception` branch.
InternalServerError(exception) ==
    [error |-> exception, message |-> <<"Internal server error">>]

EndpointNotFound(path) == [error |-> <<"Endpoint not found">>, path |-> path]

\* send_response(200) with the dict the controller returned, or the
\* `except Exception` branch when the controller raised.
Reply(r) ==
    IF Raised(r) THEN Respond(HeadOfReply, 500, InternalServerError(r.raised))
    ELSE Respond(HeadOfReply, 200, r)

\* The server accepts a request and constructs its handler, which constructs
\* a FiberTesterController of its own.
HandlerInit(req) ==
    /\ request = NoRequest
    /\ request' = req
    /\ current_color' = None
    /\ current_number' = None
    /\ is_transmitting' = FALSE
    /\ transmission_history' = <<>>
    /\ completed_log' = <<>>
    /\ call' = [op |-> "__init__", arg |-> None]
    /\ result' = [constructed |-> TRUE]
    /\ prev_op' = "none"
    /\ reference_prepare' = [set |-> FALSE]
    /\ UNCHANGED <<clock, exchanges>>

NoControllerCall ==
    UNCHANGED <<ctrl, completed_log, call, result, prev_op, reference_prepare>>

do_OPTIONS ==
    /\ request.method = "OPTIONS"
    /\ Respond(HeadOfOptions, 200, NoBody)
    /\ NoControllerCall
    /\ UNCHANGED clock

do_GET ==
    /\ request.method = "GET"
    /\ CASE request.path = "/api/status" ->
              GetStatus /\ Reply(result')
         [] request.path = "/api/health" ->
              /\ Respond(HeadOfReply, 200,
                         [status |-> "healthy",
                          message |-> <<"Fiber Tester Backend Running">>,
                          port |-> 8000,
                          timestamp |-> clock])
              /\ clock' = clock + 1
              /\ NoControllerCall
         [] OTHER ->
              /\ Respond(HeadOfReply, 404, EndpointNotFound(request.path))
              /\ NoControllerCall
              /\ UNCHANGED clock

do_POST ==
    /\ request.method = "POST"
    /\ IF request.body.kind = "malformed"
       THEN /\ Respond(HeadOfReply, 500, InternalServerError("JSONDecodeError"))
            /\ NoControllerCall
            /\ UNCHANGED clock
       ELSE LET data == Data(request.body)
            IN  CASE request.path = "/api/set-color" ->
                       SetColor(Get(data, "color")) /\ Reply(result')
                  [] request.path = "/api/set-number" ->
                       SetNumber(Get(data, "number")) /\ Reply(result')
                  [] request.path = "/api/prepare" ->
                       PrepareTransmission /\ Reply(result')
                  [] request.path = "/api/complete" ->
                       CompleteTransmission /\ Reply(result')
                  [] request.path = "/api/clear" ->
                       ClearSelection /\ Reply(result')
                  [] OTHER ->
                       /\ Respond(HeadOfReply, 404, EndpointNotFound(request.path))
                       /\ NoControllerCall
                       /\ UNCHANGED clock

-----------------------------------------------------------------------------
(* Specifications *)

\* The state after FiberTesterController(): nothing selected, no history.
Init ==
    /\ current_color = None
    /\ current_number = None
    /\ is_transmitting = FALSE
    /\ transmission_history = <<>>
    /\ clock = 0
    /\ completed_log = <<>>
    /\ call = [op |-> "__init__", arg |-> None]
    /\ result = [constructed |-> TRUE]
    /\ prev_op = "none"
    /\ reference_prepare = [set |-> FALSE]
    /\ request = NoRequest
    /\ exchanges = <<>>

\* Bounds on the number of successful completions of a run.
MaxCompletions == 1
MaxHistCompletions == 6
\* The largest n for which str(n), and for which str(-n), is tried as a number.
MaxNumber == 103
MaxNegative == 3

\* str(n) for a natural number n.
DigitChar(d) == CHOOSE c \in AsciiDigits : DigitValue(c) = d

RECURSIVE DecStr(_)
DecStr(n) == IF n < 10 THEN <<DigitChar(n)>> ELSE DecStr(n \div 10) \o <<DigitChar(n % 10)>>

\* Arguments of set_color: the three colors and strings that are none of them.
ColorInputs == {Red, Green, Blue, <<"r", "e", "d">>, <<"R", "e", "d", " ">>, <<>>}

\* Arguments of set_number: accepted ones, one out of range, one not a number.
NumberInputs ==
    {<<"0">>, <<"0", "0", "7">>, <<"+", "5">>, <<"1", "0", "1">>, <<"a", "b", "c">>}

Next ==
    \/ UNCHANGED http /\ \E color \in ColorInputs : SetColor(color)
    \/ UNCHANGED http /\ \E number \in NumberInputs : SetNumber(number)
    \/ UNCHANGED http /\ ClearSelection
    \/ UNCHANGED http /\ PrepareTransmission
    \/ UNCHANGED http /\ (CanComplete => clock < MaxCompletions) /\ CompleteTransmission
    \/ UNCHANGED http /\ GetStatus

Spec == Init /\ [][Next]_vars

\* Long runs over few selections: the history fills up and is truncated.
HistColorInputs == {Red, Blue, <<"r", "e", "d">>}
HistNumberInputs == {<<"7">>, <<"1", "0", "1">>}

NextHist ==
    \/ UNCHANGED http /\ \E color \in HistColorInputs : SetColor(color)
    \/ UNCHANGED http /\ \E number \in HistNumberInputs : SetNumber(number)
    \/ UNCHANGED http /\ ClearSelection
    \/ UNCHANGED http /\ PrepareTransmission
    \/ UNCHANGED http /\ (CanComplete => clock < MaxHistCompletions) /\ CompleteTransmission
    \/ UNCHANGED http /\ GetStatus

SpecHist == Init /\ [][NextHist]_vars

\* The selection operations alone, over many arguments.
\* Literals of int() that are not str(n), each with the integer Python gives it.
OddLiterals ==
    {<<<<"+", "5">>, 5>>, <<<<" ", "7">>, 7>>, <<<<"7", " ">>, 7>>,
     <<<<"\t", "7", "\n">>, 7>>, <<<<"1", "_", "0">>, 10>>, <<<<"0", "_", "7">>, 7>>,
     <<<<"-", "0">>, 0>>, <<<<"0", "0", "7">>, 7>>, <<<<"U+0663">>, 3>>,
     <<<<"+", "1", "0", "1">>, 101>>, <<<<"1", "_", "0", "0", "0">>, 1000>>,
     <<<<" ", "1", "5", "0", " ">>, 150>>, <<<<"-", "0", "1">>, -1>>}

\* Strings for which int() raises ValueError.
NonNumeric ==
    {<<>>, <<" ">>, <<"+">>, <<"a", "b", "c">>, <<"4", ".", "2">>, <<"1", "e", "2">>,
     <<"1", "_", "_", "0">>, <<"_", "7">>, <<"7", "_">>, <<"+", " ", "5">>,
     <<"-", "-", "1">>, <<"1", " ", "0">>, <<"0", "x", "1", "0">>}

SelectColorInputs == {Red, Blue, <<"r", "e", "d">>}

SelectNumberInputs ==
    {DecStr(n) : n \in 0..MaxNumber}
    \cup {<<"-">> \o DecStr(n) : n \in 1..MaxNegative}
    \cup {lit[1] : lit \in OddLiterals}
    \cup NonNumeric

NextSelect ==
    \/ UNCHANGED http /\ \E color \in SelectColorInputs : SetColor(color)
    \/ UNCHANGED http /\ \E number \in SelectNumberInputs : SetNumber(number)
    \/ UNCHANGED http /\ ClearSelection
    \/ UNCHANGED http /\ GetStatus

SpecSelect == Init /\ [][NextSelect]_vars

\* The compiler over every digit: selections and prepare_transmission only.
CompileColorInputs == {Red, Green, Blue, <<"r", "e", "d">>}
CompileNumberInputs ==
    {<<d>> : d \in AsciiDigits}
    \cup {<<"4", "2">>, <<"1", "0", "0">>, <<"0", "0", "7">>, <<"+", "5">>,
          <<"1", "0", "1">>}

NextCompile ==
    \/ UNCHANGED http /\ \E color \in CompileColorInputs : SetColor(color)
    \/ UNCHANGED http /\ \E number \in CompileNumberInputs : SetNumber(number)
    \/ UNCHANGED http /\ ClearSelection
    \/ UNCHANGED http /\ PrepareTransmission

SpecCompile == Init /\ [][NextCompile]_vars

\* Requests to the HTTP server, one after the other.
MaxHealthChecks == 1

GetPaths == {"/api/status", "/api/health", "/api/nowhere"}
ValuePaths == {"/api/set-color", "/api/set-number"}
PlainPaths == {"/api/prepare", "/api/complete", "/api/clear", "/api/nowhere"}

\* JSON objects of a POST body: valid and invalid fields, a null, no field.
JsonObjects ==
    {[color |-> Red], [color |-> Blue], [color |-> <<"r", "e", "d">>],
     [color |-> None],
     [number |-> <<"4", "2">>], [number |-> <<"1", "5", "0">>],
     [number |-> <<"a", "b", "c">>], [number |-> None],
     <<>>}

Bodies == {[kind |-> "empty"], [kind |-> "malformed"]}
          \cup {[kind |-> "json", data |-> data] : data \in JsonObjects}

\* The endpoints that read the body get every body, the others an empty one.
Requests ==
    {[method |-> "OPTIONS", path |-> path] : path \in {"/api/set-color"}}
    \cup {[method |-> "GET", path |-> path] : path \in GetPaths}
    \cup {[method |-> "POST", path |-> path, body |-> body] :
            path \in ValuePaths, body \in Bodies}
    \cup {[method |-> "POST", path |-> path, body |-> [kind |-> "empty"]] :
            path \in PlainPaths}

NextHttp ==
    \/ \E req \in Requests :
          /\ (req.method = "GET" /\ req.path = "/api/health") => clock < MaxHealthChecks
          /\ HandlerInit(req)
    \/ do_OPTIONS
    \/ do_GET
    \/ do_POST

SpecHttp == Init /\ [][NextHttp]_vars

-----------------------------------------------------------------------------
(* Properties *)

Min(a, b) == IF a < b THEN a ELSE b
IsSet(x) == x # None
Mutators == {"set_color", "set_number", "prepare_transmission", "complete_transmission"}

\* C1: a call of set_color, set_number, prepare_transmission or
\* complete_transmission that returns success = false leaves current_color,
\* current_number, is_transmitting and transmission_history as they were.
C1_FailureLeavesState ==
    [][(call'.op \in Mutators /\ Failed(result')) => ctrl' = ctrl]_vars

\* A rejected set_number in a state where every field holds something.
C1_Witness ==
    /\ call.op = "set_number"
    /\ Failed(result)
    /\ IsSet(current_color)
    /\ IsSet(current_number)
    /\ transmission_history # <<>>

\* C2: current_number is unset, or a non-empty string of the digits 0-9 whose
\* value is between 0 and 100.
C2_NumberIsDigitString ==
    \/ current_number = None
    \/ /\ Len(current_number) > 0
       /\ \A i \in 1..Len(current_number) : current_number[i] \in AsciiDigits
       /\ digits_value(current_number, 0) \in 0..100

\* C3: no operation raises: every call returns a result.
C3_NeverRaises == ~Raised(result)

\* C4: the history never holds more than 5 records.
C4_HistoryAtMostFive == Len(transmission_history) <= 5

\* A full history after a sixth completion.
C4_Witness == Len(transmission_history) = 5 /\ Len(completed_log) = 6

\* C5: a successful complete_transmission prepends one record whose message is
\* "<color> <number> sent" for the selection at the time of the call, and the
\* messages get_status and complete_transmission return are those of the
\* min(k, 5) most recent of the k successful completions, newest first.
C5_HistoryIsRecentCompletions ==
    /\ [](LET expected == SubSeq(completed_log, 1, Min(Len(completed_log), 5))
          IN  /\ get_status.history = expected
              /\ (call.op = "get_status" => result.history = expected)
              /\ (call.op = "complete_transmission" /\ Succeeded(result)
                    => result.history = expected))
    /\ [][(call'.op = "complete_transmission" /\ Succeeded(result')) =>
            LET sent == current_color \o <<" ">> \o current_number \o <<" sent">>
                old == history_messages(transmission_history)
                new == history_messages(transmission_history')
            IN  /\ completed_log' = <<sent>> \o completed_log
                /\ result'.message = sent
                /\ new = SubSeq(<<sent>> \o old, 1, Len(new))
                /\ Len(new) = Min(Len(old) + 1, 5)]_vars

\* The sixth completion has just returned, and it differs from the dropped one.
C5_Witness ==
    /\ call.op = "complete_transmission"
    /\ Succeeded(result)
    /\ Len(completed_log) = 6
    /\ completed_log[1] # completed_log[6]
    /\ completed_log[1] # completed_log[2]

\* C6: prepare_transmission returns success = true with a sequence exactly when
\* color and number are set and is_transmitting is false; otherwise it returns
\* success = false with status 'error' and no sequence.  (prepare_transmission
\* changes no field, so the state after the call is the state of the call.)
C6_PrepareSucceedsIffReady ==
    call.op = "prepare_transmission" =>
        IF IsSet(current_color) /\ IsSet(current_number) /\ ~is_transmitting
        THEN Succeeded(result) /\ "sequence" \in DOMAIN result
        ELSE Failed(result) /\ result.status = "error"
             /\ "sequence" \notin DOMAIN result

\* C7: ready_to_send of get_status is true exactly when color and number are set
\* and is_transmitting is false, also for the numbers "0" and "007".
C7_ReadyToSend ==
    LET ready == IsSet(current_color) /\ IsSet(current_number) /\ ~is_transmitting
    IN  /\ get_status.ready_to_send = ready
        /\ (call.op = "get_status" => result.ready_to_send = ready)

\* get_status has reported a selection with number "0" as ready.
C7_Witness ==
    /\ call.op = "get_status"
    /\ current_number = <<"0">>
    /\ IsSet(current_color)
    /\ result.ready_to_send = TRUE

\* C8: set_number(raw) succeeds with status 'number_set', and get_status then
\* reports number = raw, when raw is a literal of an integer in 0..100; it fails
\* with status 'error' when the integer is below 0 or above 100, and when raw is
\* no literal of an integer.
C8_SetNumber ==
    call.op = "set_number" =>
        LET raw == call.arg
            accepted == /\ Succeeded(result)
                        /\ result.status = "number_set"
                        /\ get_status.number = raw
            rejected == /\ Failed(result)
                        /\ result.status = "error"
        IN  /\ \A n \in 0..MaxNumber :
                 raw = DecStr(n) => IF n <= 100 THEN accepted ELSE rejected
            /\ \A n \in 1..MaxNegative : raw = <<"-">> \o DecStr(n) => rejected
            /\ \A lit \in OddLiterals :
                 raw = lit[1] =>
                    IF 0 <= lit[2] /\ lit[2] <= 100 THEN accepted ELSE rejected
            /\ raw \in NonNumeric => rejected

\* set_number("100") has succeeded and the raw string is the stored number.
C8_Witness ==
    /\ call.op = "set_number"
    /\ call.arg = <<"1", "0", "0">>
    /\ Succeeded(result)
    /\ get_status.number = <<"1", "0", "0">>

\* C9: set_color(raw) succeeds with status 'color_selected' exactly when raw is
\* 'Red', 'Green' or 'Blue'; after a success get_status reports color = raw,
\* whether or not a number is set.
C9_SetColor ==
    call.op = "set_color" =>
        /\ (Succeeded(result) /\ result.status = "color_selected")
              <=> call.arg \in {Red, Green, Blue}
        /\ call.arg \notin {Red, Green, Blue}
              => Failed(result) /\ result.status = "error"
        /\ Succeeded(result) => get_status.color = call.arg

\* A color accepted while a number was already set.
C9_Witness ==
    /\ call.op = "set_color"
    /\ call.arg = Green
    /\ Succeeded(result)
    /\ IsSet(current_number)

\* C10: prepare_transmission changes no field of the controller; a second call
\* right after a first returns the same result; and a successful result equals
\* the one the same selection gave when the history was still empty.
C10_PrepareIsPure ==
    /\ [][call'.op = "prepare_transmission" =>
            /\ ctrl' = ctrl
            /\ (call.op = "prepare_transmission" => result' = result)]_vars
    /\ []((/\ call.op = "prepare_transmission"
           /\ Succeeded(result)
           /\ reference_prepare.set
           /\ reference_prepare.color = current_color
           /\ reference_prepare.number = current_number)
          => /\ result.sequence = reference_prepare.result.sequence
             /\ result.total_duration = reference_prepare.result.total_duration
             /\ result = reference_prepare.result)

\* Two successful calls in a row, after a completion, for the selection whose
\* result was recorded before that completion.
C10_Witness ==
    /\ call.op = "prepare_transmission"
    /\ prev_op = "prepare_transmission"
    /\ Succeeded(result)
    /\ transmission_history # <<>>
    /\ reference_prepare.set
    /\ reference_prepare.color = current_color
    /\ reference_prepare.number = current_number

-----------------------------------------------------------------------------
(* Properties of the compiled sequence *)

\* What an event is: "dot", "dash", "intra" (intra-letter gap), "inter"
\* (inter-letter gap) or "confirmation".
Kind(event) ==
    IF event.type # "gap" THEN event.type
    ELSE IF event.description = <<"Intra-letter gap">> THEN "intra"
    ELSE "inter"

Kinds(sequence) == [i \in 1..Len(sequence) |-> Kind(sequence[i])]

\* One pulse per symbol of the pattern, an intra-letter gap between consecutive
\* symbols and none after the last.
LetterKinds(pattern) ==
    [k \in 1..(2 * Len(pattern) - 1) |->
        IF k % 2 = 1 THEN pattern[(k + 1) \div 2] ELSE "intra"]

RECURSIVE DigitsKinds(_)
DigitsKinds(number) ==
    IF number = <<>> THEN <<>>
    ELSE LetterKinds(MORSE_CODE[Head(number)]) \o <<"inter">> \o DigitsKinds(Tail(number))

\* C11: for a valid color and an accepted number, prepare_transmission returns
\* the sequence: the color letter's pulses with intra-letter gaps between them,
\* one inter-letter gap, each digit's pulses likewise followed by one
\* inter-letter gap, and one confirmation event last.
C11_SequenceLayout ==
    (call.op = "prepare_transmission" /\ IsSet(current_color) /\ IsSet(current_number))
        => /\ Succeeded(result)
           /\ Kinds(result.sequence) =
                LetterKinds(MORSE_CODE[current_color[1]]) \o <<"inter">>
                \o DigitsKinds(current_number) \o <<"confirmation">>

\* The sum of the durations, taken from the last event back to the first.
RECURSIVE DurationUpTo(_, _)
DurationUpTo(sequence, n) ==
    IF n = 0 THEN 0 ELSE sequence[n].duration + DurationUpTo(sequence, n - 1)

\* Time of one letter: 200 per dot, 600 per dash, 200 between consecutive symbols.
LetterTime(pattern) ==
    200 * Cardinality({i \in 1..Len(pattern) : pattern[i] = dot})
    + 600 * Cardinality({i \in 1..Len(pattern) : pattern[i] = dash})
    + 200 * (Len(pattern) - 1)

\* C12: the total_duration prepare_transmission returns is the sum of the
\* durations of the returned events; for a one-digit number it is the color
\* letter's time + 600 + the digit's time + 600 + 1000; for 'Blue' and '7' the
\* sequence has 19 events, starts with a 600 ms dash, and the total is 6600.
C12_TotalDuration ==
    (call.op = "prepare_transmission" /\ Succeeded(result)) =>
        /\ result.total_duration = DurationUpTo(result.sequence, Len(result.sequence))
        /\ Len(current_number) = 1 =>
              result.total_duration =
                  LetterTime(MORSE_CODE[current_color[1]]) + 600
                  + LetterTime(MORSE_CODE[current_number[1]]) + 600 + 1000
        /\ (current_color = Blue /\ current_number = <<"7">>) =>
              /\ Len(result.sequence) = 19
              /\ result.sequence[1].type = "dash"
              /\ result.sequence[1].duration = 600
              /\ result.total_duration = 6600

\* prepare_transmission has returned for 'Blue' and '7'.
C12_Witness ==
    /\ call.op = "prepare_transmission"
    /\ Succeeded(result)
    /\ current_color = Blue
    /\ current_number = <<"7">>
    /\ result.total_duration = 6600

IsGap(event) == event.type = "gap"
IsPulse(event) == event.type \in {"dot", "dash"}
IsInterLetterGap(event) ==
    /\ IsGap(event)
    /\ event.duration = INTER_LETTER_GAP
    /\ event.description[1] \in {"Inter-letter gap", "Inter-letter gap after digit "}

\* C21: the sequence of a successful prepare_transmission starts with a pulse
\* and alternates between non-gap events and gaps: no two pulses and no two
\* gaps are adjacent, every pulse is followed by a gap, the confirmation is
\* preceded by an inter-letter gap, and there are exactly 1 + (number of
\* characters of the stored number) inter-letter gaps.
C21_PulsesAndGapsAlternate ==
    (call.op = "prepare_transmission" /\ Succeeded(result)) =>
        LET sequence == result.sequence
            n == Len(sequence)
        IN  /\ n > 0
            /\ IsPulse(sequence[1])
            /\ \A i \in 1..(n - 1) : IsGap(sequence[i]) # IsGap(sequence[i + 1])
            /\ \A i \in 1..n : IsPulse(sequence[i]) => (i < n /\ IsGap(sequence[i + 1]))
            /\ \A i \in 1..n : sequence[i].type = "confirmation"
                                  => (i > 1 /\ IsInterLetterGap(sequence[i - 1]))
            /\ \E i \in 1..n : sequence[i].type = "confirmation"
            /\ Cardinality({i \in 1..n : IsInterLetterGap(sequence[i])})
                 = 1 + Len(current_number)

\* A sequence compiled for a three-character number: four inter-letter gaps.
C21_Witness ==
    /\ call.op = "prepare_transmission"
    /\ Succeeded(result)
    /\ current_color = Green
    /\ Len(current_number) = 3
    /\ Len(result.sequence) > 19

-----------------------------------------------------------------------------
(* Properties of the state machine *)

\* C13: a clear_selection called right after a clear_selection leaves the state
\* the first one produced and returns the same result.
C13_ClearIdempotent ==
    [][(call.op = "clear_selection" /\ call'.op = "clear_selection")
         => (ctrl' = ctrl /\ result' = result)]_vars

\* A second clear_selection in a row, in a controller that has a history.
C13_Witness ==
    /\ call.op = "clear_selection"
    /\ prev_op = "clear_selection"
    /\ transmission_history # <<>>

\* C14: is_transmitting is false after construction, and a call leaves it true
\* only if the call is a successful prepare_transmission, or it was true before
\* and the call is neither complete_transmission nor clear_selection.
C14_TransmittingOnlyAfterPrepare ==
    /\ [](call.op = "__init__" => ~is_transmitting)
    /\ [][is_transmitting' =>
            \/ (call'.op = "prepare_transmission" /\ Succeeded(result'))
            \/ (is_transmitting
                /\ call'.op \notin {"complete_transmission", "clear_selection"})]_vars

\* A completion right after a prepare_transmission: the flag is false.
C14_Witness ==
    /\ call.op = "complete_transmission"
    /\ prev_op = "prepare_transmission"
    /\ Succeeded(result)
    /\ reference_prepare.set
    /\ ~is_transmitting

\* C15: the result of each of the six operations carries a boolean 'success'
\* and a 'message'; with success false the status is 'error', with success true
\* it is one of the five other statuses.
C15_ResultEnvelope ==
    call.op # "__init__" =>
        /\ "success" \in DOMAIN result
        /\ "message" \in DOMAIN result
        /\ result.success \in BOOLEAN
        /\ Failed(result) => result.status = "error"
        /\ Succeeded(result) =>
              result.status \in {"color_selected", "number_set", "cleared",
                                 "transmitting", "completed"}

\* C18: is_transmitting is never true, 'Transmission already in progress' is
\* never returned, and a prepare_transmission called right after a successful
\* one succeeds too.
C18_NeverTransmitting ==
    /\ [](/\ ~is_transmitting
          /\ "message" \in DOMAIN result
                => result.message # <<"Transmission already in progress">>)
    /\ [][(call.op = "prepare_transmission" /\ Succeeded(result)
           /\ call'.op = "prepare_transmission") => Succeeded(result')]_vars

\* A second successful prepare_transmission in a row, with no completion at all.
C18_Witness ==
    /\ call.op = "prepare_transmission"
    /\ prev_op = "prepare_transmission"
    /\ Succeeded(result)
    /\ completed_log = <<>>
    /\ ~is_transmitting

\* C19: complete_transmission succeeds exactly when color and number are set;
\* a success unsets both and leaves is_transmitting false; a failure, and in
\* particular a call right after a success, returns 'No transmission to
\* complete' and leaves the history as it was.
C19_CompleteNeedsSelectionOnly ==
    [][call'.op = "complete_transmission" =>
        /\ Succeeded(result') <=> (IsSet(current_color) /\ IsSet(current_number))
        /\ Succeeded(result') =>
              /\ current_color' = None
              /\ current_number' = None
              /\ ~is_transmitting'
        /\ ~Succeeded(result') =>
              /\ Failed(result')
              /\ result'.message = <<"No transmission to complete">>
              /\ transmission_history' = transmission_history
        /\ (call.op = "complete_transmission" /\ Succeeded(result)) =>
              /\ Failed(result')
              /\ transmission_history' = transmission_history]_vars

\* A completion right after set_number, with no successful prepare before it.
C19_Witness ==
    /\ call.op = "complete_transmission"
    /\ prev_op = "set_number"
    /\ Succeeded(result)
    /\ ~reference_prepare.set
    /\ Len(completed_log) = 1

\* C20: the history changes only in a successful complete_transmission;
\* clear_selection unsets color and number and leaves history and flag;
\* set_color, set_number, prepare_transmission and get_status leave the
\* history; get_status changes no field.
C20_HistoryFrame ==
    [][/\ transmission_history' # transmission_history
            => (call'.op = "complete_transmission" /\ Succeeded(result'))
       /\ call'.op = "clear_selection" =>
            /\ current_color' = None
            /\ current_number' = None
            /\ transmission_history' = transmission_history
            /\ is_transmitting' = is_transmitting
       /\ call'.op \in {"set_color", "set_number", "prepare_transmission", "get_status"}
            => transmission_history' = transmission_history
       /\ call'.op = "get_status" => ctrl' = ctrl]_vars

\* clear_selection has unset a full selection in a controller with a history.
C20_Witness ==
    /\ call.op = "clear_selection"
    /\ prev_op = "set_number"
    /\ current_color = None
    /\ current_number = None
    /\ transmission_history # <<>>

-----------------------------------------------------------------------------
(* Properties of the HTTP binding *)

\* The last answered exchange and the one before it.
Last == exchanges[1]
Before == exchanges[2]

Answered(x, method, path) ==
    x.request.method = method /\ x.request.path = path

\* C16: the controller is kept across requests: a GET /api/status that follows
\* a successful POST /api/set-color (or /api/set-number) reports the color (or
\* number) that request selected.
C16_SelectionPersistsAcrossRequests ==
    (request = NoRequest /\ Len(exchanges) = 2 /\ Answered(Last, "GET", "/api/status")
     /\ Before.response.code = 200 /\ Succeeded(Before.response.body))
        => /\ Answered(Before, "POST", "/api/set-color")
                => Last.response.body.color = Before.response.body.color
           /\ Answered(Before, "POST", "/api/set-number")
                => Last.response.body.number = Before.response.body.number

\* C17: a POST /api/set-color or /api/set-number whose body is a JSON object
\* with an invalid value (a wrong name, out of range, not a number, null, or
\* no field at all) is answered 200 with success false and status 'error'.
C17_InvalidValueIsNotServerError ==
    (request = NoRequest /\ exchanges # <<>> /\ Last.request.method = "POST"
     /\ Last.request.body.kind # "malformed"
     /\ LET data == Data(Last.request.body)
        IN  \/ /\ Last.request.path = "/api/set-color"
               /\ ~validate_color(Get(data, "color"))
            \/ /\ Last.request.path = "/api/set-number"
               /\ \/ Get(data, "number") = None
                  \/ ~validate_number(Get(data, "number")))
        => /\ Last.response.code = 200
           /\ Failed(Last.response.body)
           /\ Last.response.body.status = "error"

====
